---- MODULE Spec2Model ----
(***************************************************************************)
(* Model of phconvert/hdf5.py: the path analysis used when saving          *)
(* (_analyze_path), the save / read-back pair (save_photon_hdf5,           *)
(* _save_photon_hdf5_dict, dict_from_group) and the Photon-HDF5 validator  *)
(* (assert_valid_photon_hdf5 and its helpers).                             *)
(*                                                                         *)
(* Python strings are sequences of one-character strings, so that          *)
(* str.split, str.startswith, the `in` substring test and the regular      *)
(* expression that strips the digits after /photon_data are computed       *)
(* character by character.  Node names kept in the state are TLA+ strings; *)
(* Chars spells them.                                                      *)
(***************************************************************************)
EXTENDS Integers, Sequences, FiniteSets, TLC

VARIABLES
    \* ---- _analyze_path --------------------------------------------------
    name,          \* argument `name` (characters)
    prefix_list,   \* argument `prefix_list` (sequence of character strings)
    analysis,      \* what _analyze_path(name, prefix_list) returned / raised
    again,         \* what _analyze_path returned on the meta path it produced
    ppc,           \* "call" -> "analyzed" -> "renormalized"
    \* ---- assert_valid_photon_hdf5 ---------------------------------------
    data,          \* the HDF5 hierarchy under the root node
    mtype,         \* value returned by measurement_type.read()
    strict,        \* argument `strict`
    pc,            \* position inside assert_valid_photon_hdf5
    result,        \* "running", "Accepted" or the exception raised
    warnings,      \* the 'Photon-HDF5 WARNING' lines printed so far
    checked,       \* arguments of the _check_path calls made, in order
    ph_data_m,     \* the list built at lines 323-328
    \* ---- save_photon_hdf5 / dict_from_group -----------------------------
    original,      \* the dictionary as it was when handed to save_photon_hdf5
    data_dict,     \* the caller's dictionary object (save_photon_hdf5 changes it)
    h5_fname,      \* argument `h5_fname` ("None" or a file name)
    isfile,        \* which provenance file names os.path.isfile accepts
    h5file,        \* the nodes written to the HDF5 file
    out,           \* the dictionary returned by dict_from_group
    spc            \* "call" -> "saved" / "failed" -> "read"

pvars == <<name, prefix_list, analysis, again, ppc>>
vvars == <<data, mtype, strict, pc, result, warnings, checked, ph_data_m>>
svars == <<original, data_dict, h5_fname, isfile, h5file, out, spc>>
vars == <<pvars, vvars, svars>>

(***************************************************************************)
(* Bounds                                                                  *)
(***************************************************************************)
\* longest digit run put after "photon_data" in the analysed paths
MaxDigits == 2
\* largest number of nodes left out of the reference hierarchy
MaxMissing == 1

(***************************************************************************)
(* Python string operations on sequences of characters                     *)
(***************************************************************************)
\* the characters the class [0-9] matches
DigitChars == {"0", "1", "2", "3", "4", "5", "6", "7", "8", "9"}

\* spelling of the node names that appear in the state
Chars(n) ==
    CASE n = "acquisition_time" -> <<"a", "c", "q", "u", "i", "s", "i", "t", "i", "o", "n", "_", "t", "i", "m", "e">>
      [] n = "comment" -> <<"c", "o", "m", "m", "e", "n", "t">>
      [] n = "description" -> <<"d", "e", "s", "c", "r", "i", "p", "t", "i", "o", "n">>
      [] n = "photon_data" -> <<"p", "h", "o", "t", "o", "n", "_", "d", "a", "t", "a">>
      [] n = "photon_data0" -> <<"p", "h", "o", "t", "o", "n", "_", "d", "a", "t", "a", "0">>
      [] n = "photon_data1" -> <<"p", "h", "o", "t", "o", "n", "_", "d", "a", "t", "a", "1">>
      [] n = "photon_data2" -> <<"p", "h", "o", "t", "o", "n", "_", "d", "a", "t", "a", "2">>
      [] n = "setup" -> <<"s", "e", "t", "u", "p">>
      [] n = "user" -> <<"u", "s", "e", "r">>
      [] n = "username" -> <<"u", "s", "e", "r", "n", "a", "m", "e">>
      [] n = "timestamps" -> <<"t", "i", "m", "e", "s", "t", "a", "m", "p", "s">>
      [] n = "timestamps_specs" -> <<"t", "i", "m", "e", "s", "t", "a", "m", "p", "s", "_", "s", "p", "e", "c", "s">>
      [] n = "timestamps_unit" -> <<"t", "i", "m", "e", "s", "t", "a", "m", "p", "s", "_", "u", "n", "i", "t">>
      [] n = "measurement_specs" -> <<"m", "e", "a", "s", "u", "r", "e", "m", "e", "n", "t", "_", "s", "p", "e", "c", "s">>
      [] n = "measurement_type" -> <<"m", "e", "a", "s", "u", "r", "e", "m", "e", "n", "t", "_", "t", "y", "p", "e">>
      [] n = "detectors_specs" -> <<"d", "e", "t", "e", "c", "t", "o", "r", "s", "_", "s", "p", "e", "c", "s">>
      [] n = "spectral_ch1" -> <<"s", "p", "e", "c", "t", "r", "a", "l", "_", "c", "h", "1">>
      [] n = "spectral_ch2" -> <<"s", "p", "e", "c", "t", "r", "a", "l", "_", "c", "h", "2">>
      [] n = "alex_period" -> <<"a", "l", "e", "x", "_", "p", "e", "r", "i", "o", "d">>
      [] n = "laser_pulse_rate" -> <<"l", "a", "s", "e", "r", "_", "p", "u", "l", "s", "e", "_", "r", "a", "t", "e">>
      [] n = "nantotimes" -> <<"n", "a", "n", "t", "o", "t", "i", "m", "e", "s">>
      [] n = "nantotimes_specs" -> <<"n", "a", "n", "t", "o", "t", "i", "m", "e", "s", "_", "s", "p", "e", "c", "s">>
      [] n = "tcspc_unit" -> <<"t", "c", "s", "p", "c", "_", "u", "n", "i", "t">>
      [] n = "tcspc_range" -> <<"t", "c", "s", "p", "c", "_", "r", "a", "n", "g", "e">>
      [] n = "tcspc_num_bins" -> <<"t", "c", "s", "p", "c", "_", "n", "u", "m", "_", "b", "i", "n", "s">>
      [] n = "time_reversed" -> <<"t", "i", "m", "e", "_", "r", "e", "v", "e", "r", "s", "e", "d">>
      [] n = "num_pixels" -> <<"n", "u", "m", "_", "p", "i", "x", "e", "l", "s">>
      [] n = "num_spots" -> <<"n", "u", "m", "_", "s", "p", "o", "t", "s">>
      [] n = "num_spectral_ch" -> <<"n", "u", "m", "_", "s", "p", "e", "c", "t", "r", "a", "l", "_", "c", "h">>
      [] n = "num_polarization_ch" -> <<"n", "u", "m", "_", "p", "o", "l", "a", "r", "i", "z", "a", "t", "i", "o", "n", "_", "c", "h">>
      [] n = "num_split_ch" -> <<"n", "u", "m", "_", "s", "p", "l", "i", "t", "_", "c", "h">>
      [] n = "modulated_excitation" -> <<"m", "o", "d", "u", "l", "a", "t", "e", "d", "_", "e", "x", "c", "i", "t", "a", "t", "i", "o", "n">>
      [] n = "lifetime" -> <<"l", "i", "f", "e", "t", "i", "m", "e">>
      [] n = "foo" -> <<"f", "o", "o">>
      [] n = "bar" -> <<"b", "a", "r">>
      [] n = "identity" -> <<"i", "d", "e", "n", "t", "i", "t", "y">>
      [] n = "provenance" -> <<"p", "r", "o", "v", "e", "n", "a", "n", "c", "e">>
      [] n = "filename" -> <<"f", "i", "l", "e", "n", "a", "m", "e">>
      [] n = "filename_full" -> <<"f", "i", "l", "e", "n", "a", "m", "e", "_", "f", "u", "l", "l">>
      [] n = "creation_time" -> <<"c", "r", "e", "a", "t", "i", "o", "n", "_", "t", "i", "m", "e">>
      [] n = "modification_time" -> <<"m", "o", "d", "i", "f", "i", "c", "a", "t", "i", "o", "n", "_", "t", "i", "m", "e">>
      [] n = "software" -> <<"s", "o", "f", "t", "w", "a", "r", "e">>
      [] n = "software_version" -> <<"s", "o", "f", "t", "w", "a", "r", "e", "_", "v", "e", "r", "s", "i", "o", "n">>
      [] n = "format_name" -> <<"f", "o", "r", "m", "a", "t", "_", "n", "a", "m", "e">>
      [] n = "format_version" -> <<"f", "o", "r", "m", "a", "t", "_", "v", "e", "r", "s", "i", "o", "n">>
      [] n = "format_url" -> <<"f", "o", "r", "m", "a", "t", "_", "u", "r", "l">>
      [] n = "a/b" -> <<"a", "/", "b">>
      [] n = "" -> <<>>

\* str.startswith
startswith(s, p) == Len(s) >= Len(p) /\ \A j \in 1..Len(p) : s[j] = p[j]

\* str.endswith
endswith(s, p) == Len(s) >= Len(p) /\ SubSeq(s, Len(s) - Len(p) + 1, Len(s)) = p

\* `sub in s` for two strings
contains(s, sub) ==
    \E i \in 1..(Len(s) - Len(sub) + 1) : \A j \in 1..Len(sub) : s[i + j - 1] = sub[j]

\* '/'.join(l)
RECURSIVE join(_)
join(l) ==
    IF l = <<>> THEN <<>>
    ELSE IF Len(l) = 1 THEN l[1]
    ELSE l[1] \o <<"/">> \o join(Tail(l))

\* s.split('/')
RECURSIVE split(_)
split(s) ==
    IF \A i \in 1..Len(s) : s[i] # "/" THEN <<s>>
    ELSE LET i == CHOOSE k \in 1..Len(s) :
                      s[k] = "/" /\ \A j \in 1..(k - 1) : s[j] # "/"
         IN  <<SubSeq(s, 1, i - 1)>> \o split(SubSeq(s, i + 1, Len(s)))

\* the set of elements of a sequence
Range(l) == {l[i] : i \in 1..Len(l)}

\* '_specs' as characters
underscore_specs == <<"_", "s", "p", "e", "c", "s">>

\* '/photon_data' as characters
slash_photon_data == <<"/">> \o Chars("photon_data")

\* group(1) of re.match(pattern, path) for a path that starts with
\* '/photon_data': the digit class is matched greedily, the group takes
\* what is left
re_match_group1_one_digit(path) ==
    LET n == Len(slash_photon_data)
        k == IF n + 1 <= Len(path) /\ path[n + 1] \in DigitChars THEN 1 ELSE 0
    IN  SubSeq(path, n + k + 1, Len(path))

re_match_group1(path) ==
    LET n == Len(slash_photon_data)
        k == CHOOSE d \in 0..(Len(path) - n) :
                 /\ \A j \in 1..d : path[n + j] \in DigitChars
                 /\ (n + d + 1 <= Len(path) => path[n + d + 1] \notin DigitChars)
    IN  SubSeq(path, n + k + 1, Len(path))

(***************************************************************************)
(* _analyze_path                                                           *)
(***************************************************************************)
Raised(e) == [exc |-> e]

_analyze_path(name_, prefix_list_) ==
    IF name_ = <<>> THEN Raised("IndexError")
    ELSE IF ~(name_[1] # "/" /\ name_[Len(name_)] # "/") THEN Raised("AssertionError")
    ELSE
    LET has_prefix == Len(prefix_list_) > 0
        prefix == join(prefix_list_)
    IN
    IF has_prefix /\ prefix = <<>> THEN Raised("IndexError")
    ELSE IF has_prefix /\ ~(prefix[1] # "/" /\ prefix[Len(prefix)] # "/")
         THEN Raised("AssertionError")
    ELSE
    LET full_path == IF has_prefix THEN <<"/">> \o prefix \o <<"/">> \o name_
                                   ELSE <<"/">> \o name_
        chunks == split(full_path)
    IN
    IF ~(Len(chunks) >= 2 /\ name_ = chunks[Len(chunks)]) THEN Raised("AssertionError")
    ELSE
    LET is_user == Chars("user") \in Range(chunks)
        in_phdata == startswith(full_path, slash_photon_data)
    IN  [exc |-> "none",
         meta_path |-> IF in_phdata
                       THEN slash_photon_data \o re_match_group1(full_path)
                       ELSE full_path,
         is_phdata |-> in_phdata /\ Len(chunks) = 3
                       /\ ~endswith(name_, underscore_specs),
         is_user |-> is_user]

(***************************************************************************)
(* Calls of _analyze_path                                                  *)
(***************************************************************************)
\* digits used in the analysed names
InputDigits == {"0", "1", "4", "2"}

RECURSIVE DigitRuns(_)
DigitRuns(k) ==
    IF k = 0 THEN {<<>>}
    ELSE LET shorter == DigitRuns(k - 1)
         IN  shorter \cup {r \o <<d>> : r \in shorter, d \in InputDigits}

\* what follows the digit run inside the first path component
Rests == {<<>>, <<"x">>, <<"x", "1">>, underscore_specs}

\* first path components
FirstNames ==
    {Chars("photon_data") \o n \o r : n \in DigitRuns(MaxDigits), r \in Rests}
    \cup {Chars("user"), Chars("setup"), <<"x">> \o Chars("photon_data1"),
          Chars("a/b"), <<>>, <<"/", "a">>, <<"a", "/">>}

\* names below the first component
InnerNames == {Chars("timestamps"), Chars("timestamps_specs"), Chars("user"),
               Chars("username"), <<"7">>}

PathInit ==
    /\ \E first \in FirstNames :
          \/ prefix_list = <<>> /\ name = first
          \/ prefix_list = <<first>> /\ name \in InnerNames
          \/ /\ prefix_list \in {<<first, m>> : m \in {Chars("user"), Chars("measurement_specs")}}
             /\ name \in InnerNames
    /\ analysis = Raised("unset")
    /\ again = Raised("unset")
    /\ ppc = "call"

\* one call _analyze_path(name, prefix_list), as made at line 97
AnalyzePath ==
    /\ ppc = "call"
    /\ analysis' = _analyze_path(name, prefix_list)
    /\ ppc' = "analyzed"
    /\ UNCHANGED <<name, prefix_list, again, vvars, svars>>

\* the meta path handed back to _analyze_path: its last component is the
\* name, the components before it the prefix list
AnalyzeMetaPath ==
    /\ ppc = "analyzed"
    /\ analysis.exc = "none"
    /\ LET chunks == split(analysis.meta_path)
       IN  again' = _analyze_path(chunks[Len(chunks)],
                                  SubSeq(chunks, 2, Len(chunks) - 1))
    /\ ppc' = "renormalized"
    /\ UNCHANGED <<name, prefix_list, analysis, vvars, svars>>

(***************************************************************************)
(* The HDF5 hierarchy seen by the validator                                *)
(*                                                                         *)
(* A node is the sequence of names leading to it from the root (<<>>).     *)
(* data.groups are the Group nodes below the root, data.leaves the arrays. *)
(***************************************************************************)
\* node._v_pathname
_v_pathname(p) == <<"/">> \o join([i \in 1..Len(p) |-> Chars(p[i])])

\* children of the group p
Children(tree, p) ==
    {q \in tree.groups \cup tree.leaves : Len(q) = Len(p) + 1 /\ SubSeq(q, 1, Len(p)) = p}

\* `name in group` for a Group node
HasChild(tree, p, n) == Append(p, n) \in tree.groups \cup tree.leaves

\* a set of nodes as a list, shallower nodes first
RECURSIVE ByDepth(_)
ByDepth(S) ==
    IF S = {} THEN <<>>
    ELSE LET x == CHOOSE y \in S : \A z \in S : Len(y) <= Len(z)
         IN  <<x>> \o ByDepth(S \ {x})

\* data._f_walk_groups(): the group itself, then every group below it, a
\* parent always before its children
_f_walk_groups(tree) == <<<<>>>> \o ByDepth(tree.groups)

\* group._f_iter_nodes(): the children of the group
_f_iter_nodes(tree, p) == ByDepth(Children(tree, p))

\* the keys of metadata.official_fields_descr
official_fields_descr ==
    LET ph(rel) == <<"photon_data">> \o rel
    IN  {_v_pathname(p) : p \in
          {<<>>, <<"acquisition_time">>, <<"comment">>, <<"description">>,
           <<"identity">>, <<"provenance">>, <<"setup">>, <<"user">>,
           <<"setup", "num_pixels">>, <<"setup", "num_spots">>,
           <<"setup", "num_spectral_ch">>, <<"setup", "num_polarization_ch">>,
           <<"setup", "num_split_ch">>, <<"setup", "modulated_excitation">>,
           <<"setup", "lifetime">>,
           ph(<<>>), ph(<<"timestamps">>), ph(<<"timestamps_specs">>),
           ph(<<"timestamps_specs", "timestamps_unit">>),
           ph(<<"measurement_specs">>),
           ph(<<"measurement_specs", "measurement_type">>),
           ph(<<"measurement_specs", "detectors_specs">>),
           ph(<<"measurement_specs", "detectors_specs", "spectral_ch1">>),
           ph(<<"measurement_specs", "detectors_specs", "spectral_ch2">>),
           ph(<<"measurement_specs", "alex_period">>),
           ph(<<"measurement_specs", "laser_pulse_rate">>),
           ph(<<"nantotimes">>), ph(<<"nantotimes_specs">>),
           ph(<<"nantotimes_specs", "tcspc_unit">>),
           ph(<<"nantotimes_specs", "tcspc_range">>),
           ph(<<"nantotimes_specs", "tcspc_num_bins">>),
           ph(<<"nantotimes_specs", "time_reversed">>)}}

(***************************************************************************)
(* Outcomes of the validator's helpers                                     *)
(*                                                                         *)
(* A helper returns what it raised (or NotRaised) and the warning lines it *)
(* printed.                                                                *)
(***************************************************************************)
Message(text, n, path, mt) == [text |-> text, name |-> n, path |-> path, mtype |-> mt]

NotRaised == [status |-> "none"]
Invalid_PhotonHDF5(msg) == [status |-> "raised", exc |-> "Invalid_PhotonHDF5", msg |-> msg]
PythonError(e) == [status |-> "raised", exc |-> e]

Returns(printed) == [raised |-> NotRaised, printed |-> printed]
Raises(x) == [raised |-> x, printed |-> <<>>]

\* statement e followed by the statements rest
Then(e, rest) ==
    IF e.raised.status = "raised" THEN e
    ELSE [raised |-> rest.raised, printed |-> e.printed \o rest.printed]

_raise_invalid_file(msg, strict_) ==
    IF strict_ THEN Raises(Invalid_PhotonHDF5(msg)) ELSE Returns(<<msg>>)

\* the call at line 278 leaves `strict` at its default, True
_check_has_field(n, tree, group, strict_) ==
    IF ~HasChild(tree, group, n)
    THEN _raise_invalid_file(Message("Missing", n, group, ""), TRUE)
    ELSE Returns(<<>>)

_check_path(path, strict_) ==
    IF contains(path, <<"/">> \o Chars("user")) THEN Returns(<<>>)
    ELSE
    LET path2 == IF startswith(path, slash_photon_data)
                 THEN slash_photon_data \o re_match_group1(path)
                 ELSE path
    IN  IF path2 \notin official_fields_descr
        THEN LET msg == Message("Unknown field", "", path2, "")
             IN  IF strict_ THEN Raises(Invalid_PhotonHDF5(msg)) ELSE Returns(<<msg>>)
        ELSE Returns(<<>>)

\* the outcome of the _check_path calls e[i] made on paths[i], in order, up
\* to and including the first one that raises
Outcome(paths, e) ==
    LET raising == {i \in 1..Len(paths) : e[i].raised.status = "raised"}
        last == IF raising = {} THEN Len(paths)
                ELSE CHOOSE i \in raising : \A j \in raising : i <= j
        warned(i) == e[i].printed # <<>>
        warning == SelectSeq([i \in 1..Len(paths) |-> i], warned)
    IN  [calls |-> SubSeq(paths, 1, last),
         verified |-> IF raising = {} THEN paths ELSE SubSeq(paths, 1, last - 1),
         eff |-> IF raising = {}
                 THEN Returns([j \in 1..Len(warning) |-> e[warning[j]].printed[1]])
                 ELSE e[last]]

CheckPaths(paths, strict_) ==
    Outcome(paths,
            [i \in 1..Len(paths) |-> _check_path(_v_pathname(paths[i]), strict_)] \o <<>>)

\* already_verified, the calls made and their outcome once the checks r of
\* one more group are added to those of the groups before it
Verified(before, r) ==
    [already_verified |-> before.already_verified \o r.verified,
     calls |-> before.calls \o r.calls,
     eff |-> Then(before.eff, r.eff)]

\* one turn of the outer loop of _check_valid_names: the path of the group
\* is checked without a look at already_verified, the path of a child only
\* if it is not in the list (nothing more is done after a raise)
CheckGroup(tree, strict_, before, group) ==
    IF before.eff.raised.status = "raised" THEN before
    ELSE LET not_verified(path) == path \notin Range(before.already_verified)
         IN  Verified(before,
                      CheckPaths(<<group>> \o SelectSeq(_f_iter_nodes(tree, group),
                                                        not_verified),
                                 strict_))

\* the loops of _check_valid_names; after[k] is the state once the first k
\* groups of the walk are done
_check_valid_names(tree, strict_) ==
    LET walk == _f_walk_groups(tree)
        after[k \in 0..Len(walk)] ==
            IF k = 0
            THEN [already_verified |-> <<>>, calls |-> <<>>, eff |-> Returns(<<>>)]
            ELSE CheckGroup(tree, strict_, after[k - 1], walk[k])
    IN  after[Len(walk)]

_check_setup(tree, setup_, strict_) ==
    LET mantatory_fields == <<"num_pixels", "num_spots", "num_spectral_ch",
                              "num_polarization_ch", "num_split_ch",
                              "modulated_excitation", "lifetime">>
        check[i \in 1..(Len(mantatory_fields) + 1)] ==
            IF i > Len(mantatory_fields) THEN Returns(<<>>)
            ELSE Then(IF ~HasChild(tree, setup_, mantatory_fields[i])
                      THEN _raise_invalid_file(
                               Message("Missing", mantatory_fields[i], setup_, ""), strict_)
                      ELSE Returns(<<>>),
                      check[i + 1])
    IN  check[1]

(***************************************************************************)
(* _check_photon_data                                                      *)
(*                                                                         *)
(* ph_data is [is_group, path]: a Group node at `path`, or, when is_group  *)
(* is FALSE, the Python str path[1].                                       *)
(***************************************************************************)
GroupNode(p) == [is_group |-> TRUE, path |-> p]
StrObject(k) == [is_group |-> FALSE, path |-> <<k>>]

\* `name in group`: a child lookup on a Group, a substring test on a str
has(tree, group, n) ==
    IF group.is_group THEN HasChild(tree, group.path, n)
    ELSE contains(Chars(group.path[1]), Chars(n))

\* natural naming, group.<n>: a str has no such attribute, a Group without
\* the child raises NoSuchNodeError
getattr(tree, group, n) ==
    IF ~group.is_group THEN Raises(PythonError("AttributeError"))
    ELSE IF ~HasChild(tree, group.path, n) THEN Raises(PythonError("NoSuchNodeError"))
    ELSE Returns(<<>>)

child(group, n) == GroupNode(Append(group.path, n))

_assert_has_field_lenient(n, tree, group) ==
    IF ~has(tree, group, n)
    THEN IF group.is_group
         THEN Returns(<<Message("Missing", n, group.path, "")>>)
         ELSE Raises(PythonError("AttributeError"))
    ELSE Returns(<<>>)

\* the message is built from group._v_pathname before the raise
_assert_has_field(n, tree, group) ==
    IF ~has(tree, group, n)
    THEN IF group.is_group
         THEN Raises(Invalid_PhotonHDF5(Message("Missing", n, group.path, "")))
         ELSE Raises(PythonError("AttributeError"))
    ELSE Returns(<<>>)

_assert_has_field_mtype_lenient(n, tree, group, measurement_type) ==
    IF ~has(tree, group, n)
    THEN IF group.is_group
         THEN Returns(<<Message("Missing, mandatory for", n, group.path, measurement_type)>>)
         ELSE Raises(PythonError("AttributeError"))
    ELSE Returns(<<>>)

_assert_has_field_mtype(n, tree, group, measurement_type) ==
    IF ~has(tree, group, n)
    THEN IF group.is_group
         THEN Raises(Invalid_PhotonHDF5(
                  Message("Missing, mandatory for", n, group.path, measurement_type)))
         ELSE Raises(PythonError("AttributeError"))
    ELSE Returns(<<>>)

spectral_meas_types == {"smFRET", "smFRET-usALEX", "smFRET-usALEX-3c", "smFRET-nsALEX"}

_check_photon_data(tree, ph_data, measurement_type, strict_) ==
    LET measurement_specs == child(ph_data, "measurement_specs")
        detectors_specs == child(measurement_specs, "detectors_specs")
        nantotimes_specs == child(ph_data, "nantotimes_specs")
        need(n, group) == _assert_has_field_mtype(n, tree, group, measurement_type)
        alex == IF measurement_type \in {"smFRET-usALEX", "smFRET-usALEX-3c"}
                THEN need("alex_period", measurement_specs)
                ELSE Returns(<<>>)
        nsalex == IF measurement_type = "smFRET-nsALEX"
                  THEN Then(need("laser_pulse_rate", measurement_specs),
                       Then(need("nantotimes", ph_data),
                       Then(need("nantotimes_specs", ph_data),
                       Then(getattr(tree, ph_data, "nantotimes_specs"),
                       Then(need("tcspc_unit", nantotimes_specs),
                       Then(need("tcspc_range", nantotimes_specs),
                       Then(need("tcspc_num_bins", nantotimes_specs),
                            need("time_reversed", nantotimes_specs))))))))
                  ELSE Returns(<<>>)
        typed == IF measurement_type \notin spectral_meas_types
                 THEN Raises(Invalid_PhotonHDF5(
                          Message("Unkwnown measurement type", "", <<>>, measurement_type)))
                 ELSE Then(getattr(tree, measurement_specs, "detectors_specs"),
                      Then(need("spectral_ch1", detectors_specs),
                      Then(need("spectral_ch2", detectors_specs),
                      Then(alex, nsalex))))
        specs == IF ~has(tree, ph_data, "measurement_specs")
                 THEN _raise_invalid_file(
                          Message("Missing", "measurement_specs", <<>>, ""), strict_)
                 ELSE Then(getattr(tree, ph_data, "measurement_specs"),
                      IF ~has(tree, measurement_specs, "measurement_type")
                      THEN _raise_invalid_file(
                               Message("Missing", "measurement_type", <<>>, ""), strict_)
                      ELSE typed)
    IN  Then(_assert_has_field("timestamps", tree, ph_data),
        Then(_assert_has_field("timestamps_specs", tree, ph_data),
        Then(getattr(tree, ph_data, "timestamps_specs"),
        Then(_assert_has_field("timestamps_unit", tree, child(ph_data, "timestamps_specs")),
             specs))))

(***************************************************************************)
(* list.sort() on names                                                    *)
(***************************************************************************)
\* the characters of the names in increasing code point
CodePoints == <<"/", "0", "1", "2", "3", "4", "5", "6", "7", "8", "9", "_",
                "a", "b", "c", "d", "e", "f", "g", "h", "i", "j", "k", "l", "m",
                "n", "o", "p", "q", "r", "s", "t", "u", "v", "w", "x", "y", "z">>

ord(c) == CHOOSE i \in 1..Len(CodePoints) : CodePoints[i] = c

\* a <= b for two strings
RECURSIVE str_le(_, _)
str_le(a, b) ==
    IF a = <<>> THEN TRUE
    ELSE IF b = <<>> THEN FALSE
    ELSE IF a[1] = b[1] THEN str_le(Tail(a), Tail(b))
    ELSE ord(a[1]) < ord(b[1])

RECURSIVE sorted(_)
sorted(S) ==
    IF S = {} THEN <<>>
    ELSE LET x == CHOOSE y \in S : \A z \in S : str_le(Chars(y), Chars(z))
         IN  <<x>> \o sorted(S \ {x})

discover_no_raise(tree) ==
    IF HasChild(tree, <<>>, "photon_data")
    THEN [eff |-> Returns(<<>>), ph_data_m |-> <<GroupNode(<<"photon_data">>)>>]
    ELSE [eff |-> Returns(<<>>), ph_data_m |-> <<>>]

\* lines 323-331: the list of measurement groups, or the raise
discover(tree) ==
    IF HasChild(tree, <<>>, "photon_data")
    THEN [eff |-> Returns(<<>>), ph_data_m |-> <<GroupNode(<<"photon_data">>)>>]
    ELSE IF HasChild(tree, <<>>, "photon_data0")
    THEN LET keys == {g[1] : g \in {q \in tree.groups : Len(q) = 1}}
             ks == sorted({k \in keys : startswith(Chars(k), Chars("photon_data"))})
         IN  [eff |-> Returns(<<>>),
              ph_data_m |-> [i \in 1..Len(ks) |-> StrObject(ks[i])]]
    ELSE [eff |-> Raises(Invalid_PhotonHDF5(
                      Message("missing photon_data group", "", <<>>, ""))),
          ph_data_m |-> <<>>]

(***************************************************************************)
(* The hierarchies handed to the validator                                 *)
(***************************************************************************)
\* a measurement group named g with every field the validator can ask for
MeasurementGroup(g) ==
    [groups |-> {<<g>>, <<g, "timestamps_specs">>, <<g, "measurement_specs">>,
                 <<g, "measurement_specs", "detectors_specs">>,
                 <<g, "nantotimes_specs">>},
     leaves |-> {<<g, "timestamps">>, <<g, "timestamps_specs", "timestamps_unit">>,
                 <<g, "measurement_specs", "measurement_type">>,
                 <<g, "measurement_specs", "detectors_specs", "spectral_ch1">>,
                 <<g, "measurement_specs", "detectors_specs", "spectral_ch2">>,
                 <<g, "measurement_specs", "alex_period">>,
                 <<g, "measurement_specs", "laser_pulse_rate">>,
                 <<g, "nantotimes">>,
                 <<g, "nantotimes_specs", "tcspc_unit">>,
                 <<g, "nantotimes_specs", "tcspc_range">>,
                 <<g, "nantotimes_specs", "tcspc_num_bins">>,
                 <<g, "nantotimes_specs", "time_reversed">>}]

\* the root fields and the setup group
RootFields ==
    [groups |-> {<<"setup">>},
     leaves |-> {<<"acquisition_time">>, <<"comment">>,
                 <<"setup", "num_pixels">>, <<"setup", "num_spots">>,
                 <<"setup", "num_spectral_ch">>, <<"setup", "num_polarization_ch">>,
                 <<"setup", "num_split_ch">>, <<"setup", "modulated_excitation">>,
                 <<"setup", "lifetime">>}]

\* names of the measurement groups: one group, a numbered family, a
\* family that does not start at 0, none
Layouts == {{"photon_data"}, {"photon_data0", "photon_data1"}, {"photon_data1"}, {}}

\* nodes outside the reference hierarchy
Extras ==
    {[groups |-> {}, leaves |-> {}],
     [groups |-> {}, leaves |-> {<<"foo">>}],
     [groups |-> {<<"bar">>}, leaves |-> {<<"bar", "foo">>}],
     [groups |-> {<<"user">>}, leaves |-> {<<"user", "foo">>}],
     [groups |-> {}, leaves |-> {<<"username">>}]}

Union2(a, b) == [groups |-> a.groups \cup b.groups, leaves |-> a.leaves \cup b.leaves]

RECURSIVE Family(_)
Family(names) ==
    IF names = {} THEN [groups |-> {}, leaves |-> {}]
    ELSE LET g == CHOOSE n \in names : TRUE
         IN  Union2(MeasurementGroup(g), Family(names \ {g}))

\* the reference hierarchy for a layout
Reference(layout) == Union2(RootFields, Family(layout))

\* the hierarchy without the nodes in S and everything below them
Without(tree, S) ==
    LET kept(q) == \A s \in S : ~(Len(s) <= Len(q) /\ SubSeq(q, 1, Len(s)) = s)
    IN  [groups |-> {q \in tree.groups : kept(q)},
         leaves |-> {q \in tree.leaves : kept(q)}]

RECURSIVE SubsetsUpTo(_, _)
SubsetsUpTo(S, k) ==
    IF k = 0 THEN {{}}
    ELSE LET smaller == SubsetsUpTo(S, k - 1)
         IN  smaller \cup {T \cup {x} : T \in smaller, x \in S}

MeasurementTypes == spectral_meas_types \cup {"FCS"}

Running == [status |-> "running"]
Accepted == [status |-> "returned"]

ValidatorInit ==
    /\ \E layout \in Layouts, extra \in Extras :
          LET full == Union2(Reference(layout), extra)
          IN  \E S \in SubsetsUpTo(full.groups \cup full.leaves, MaxMissing) :
                 data = Without(full, S)
    /\ mtype \in MeasurementTypes
    /\ strict \in BOOLEAN
    /\ pc = "names"
    /\ result = Running
    /\ warnings = <<>>
    /\ checked = <<>>
    /\ ph_data_m = <<>>

(***************************************************************************)
(* assert_valid_photon_hdf5, one action per statement of its body          *)
(***************************************************************************)
\* the statement returned or raised: record the warnings and either go on
\* to the next statement or leave with the exception
Step(eff, next) ==
    /\ warnings' = warnings \o eff.printed
    /\ IF eff.raised.status = "raised"
       THEN result' = eff.raised /\ pc' = "done"
       ELSE IF next = "done"
       THEN result' = Accepted /\ pc' = "done"
       ELSE result' = result /\ pc' = next

\* line 319
CheckValidNames ==
    /\ pc = "names"
    /\ LET r == _check_valid_names(data, strict)
       IN  /\ checked' = r.calls
           /\ Step(r.eff, "fields")
    /\ UNCHANGED <<data, mtype, strict, ph_data_m, pvars, svars>>

\* lines 320-321
CheckHasFields ==
    /\ pc = "fields"
    /\ Step(Then(_check_has_field("acquisition_time", data, <<>>, strict),
                 _check_has_field("comment", data, <<>>, strict)),
            "discover")
    /\ UNCHANGED <<data, mtype, strict, checked, ph_data_m, pvars, svars>>

\* lines 323-331
DiscoverPhotonData ==
    /\ pc = "discover"
    /\ LET r == discover(data)
       IN  /\ ph_data_m' = r.ph_data_m
           /\ Step(r.eff, IF r.ph_data_m = <<>> THEN "setup" ELSE "photon_data")
    /\ UNCHANGED <<data, mtype, strict, checked, pvars, svars>>

\* lines 333-334, one iteration of the loop
CheckPhotonData ==
    /\ pc = "photon_data"
    /\ ph_data_m # <<>>
    /\ ph_data_m' = Tail(ph_data_m)
    /\ Step(_check_photon_data(data, Head(ph_data_m), mtype, strict),
            IF Tail(ph_data_m) = <<>> THEN "setup" ELSE "photon_data")
    /\ UNCHANGED <<data, mtype, strict, checked, pvars, svars>>

\* lines 336-340
CheckSetup ==
    /\ pc = "setup"
    /\ Step(IF HasChild(data, <<>>, "setup")
            THEN _check_setup(data, <<"setup">>, strict)
            ELSE _raise_invalid_file(Message("Missing /setup group", "", <<>>, ""), strict),
            "done")
    /\ UNCHANGED <<data, mtype, strict, checked, ph_data_m, pvars, svars>>

(***************************************************************************)
(* save_photon_hdf5, _save_photon_hdf5_dict and dict_from_group            *)
(*                                                                         *)
(* A dictionary is the set of its sub-dictionaries (groups) and the set of *)
(* its other items (leaves, each with its value), every key given as the   *)
(* sequence of names leading to it.  A value is a str, a bytes object, an  *)
(* array, or the open file stored under 'data_file'.                       *)
(***************************************************************************)
EmptyDict == [groups |-> {}, leaves |-> {}]
EmptyFile == [groups |-> {}, leaves |-> {}]

str(v) == [type |-> "str", v |-> v]
bytes(v) == [type |-> "bytes", v |-> v]
array(v) == [type |-> "array", v |-> v]

Leaf(path, value) == [path |-> path, value |-> value]

\* `key in d` and d[key] for the dictionary at `at`
HasKey(d, at, key) ==
    Append(at, key) \in d.groups \cup {l.path : l \in d.leaves}
IsDict(d, path) == path \in d.groups
ValueAt(d, path) == (CHOOSE l \in d.leaves : l.path = path).value

\* the dictionary without the item at `path` (and what is inside it)
Pop(d, path) ==
    LET kept(q) == ~(Len(path) <= Len(q) /\ SubSeq(q, 1, Len(path)) = path)
    IN  [groups |-> {g \in d.groups : kept(g)},
         leaves |-> {l \in d.leaves : kept(l.path)}]

\* d[at].update(items) for a dictionary `items` of leaves keyed by name
Update(d, at, items) ==
    LET new == {Leaf(Append(at, i.path[1]), i.value) : i \in items}
        replaced == {l.path : l \in new}
    IN  [groups |-> {g \in d.groups : \A r \in replaced :
                        ~(Len(r) <= Len(g) /\ SubSeq(g, 1, Len(r)) = r)},
         leaves |-> {l \in d.leaves : \A r \in replaced :
                        ~(Len(r) <= Len(l.path) /\ SubSeq(l.path, 1, Len(r)) = r)}
                    \cup new]

\* str.encode(): the byte string of a text string
encode(obj) == bytes(obj.v)

\* what _h5_write_array stores under `path`
_h5_write_array(path, obj, descr, chunked) ==
    [path |-> path,
     obj |-> IF obj.type = "str" THEN encode(obj) ELSE obj,
     title |-> descr,
     chunked |-> chunked]

\* get_file_metadata(fname)
get_file_metadata ==
    {Leaf(<<"filename">>, str("basename of the original file")),
     Leaf(<<"filename_full">>, str("absolute path of the original file")),
     Leaf(<<"creation_time">>, str("ctime of the original file")),
     Leaf(<<"modification_time">>, str("mtime of the original file"))}

\* the dictionary built at lines 192-199
identity ==
    {Leaf(<<"filename">>, str("basename of the HDF5 file")),
     Leaf(<<"filename_full">>, str("absolute path of the HDF5 file")),
     Leaf(<<"creation_time">>, str("time of the save")),
     Leaf(<<"software">>, str("phconvert")),
     Leaf(<<"software_version">>, str("__version__")),
     Leaf(<<"format_name">>, str("Photon-HDF5")),
     Leaf(<<"format_version">>, str("0.3")),
     Leaf(<<"format_url">>, str("http://photon-hdf5.readthedocs.org/"))}

\* the call _analyze_path(name, prefix_list) made for the item at `path`
AnalyzeItem(path) ==
    _analyze_path(Chars(path[Len(path)]),
                  [i \in 1..(Len(path) - 1) |-> Chars(path[i])])

\* fields_descr.get(descr_key, ''): the description of an official field
\* (written here as its key), '' for any other key
Description(descr_key) ==
    IF descr_key \in official_fields_descr THEN descr_key ELSE <<>>

\* the nodes _save_photon_hdf5_dict creates for the whole of d.  A name that
\* _analyze_path refuses ends the walk with the exception: by then the
\* items of the root dictionary listed in `done` have been written.
_save_photon_hdf5_dict(d, done) ==
    LET paths == d.groups \cup {l.path : l \in d.leaves}
        refused == {q \in paths : AnalyzeItem(q).exc # "none"}
        reached == IF refused = {} THEN paths
                   ELSE {q \in paths : q[1] \in done
                                       /\ \A r \in refused : r[1] # q[1]}
    IN  [raised |-> IF refused = {} THEN NotRaised
                    ELSE PythonError(AnalyzeItem(CHOOSE r \in refused : TRUE).exc),
         file |-> [groups |-> {[path |-> g, title |-> Description(AnalyzeItem(g).meta_path)] :
                                  g \in d.groups \cap reached},
                   leaves |-> {_h5_write_array(l.path, l.value,
                                               Description(AnalyzeItem(l.path).meta_path),
                                               AnalyzeItem(l.path).is_phdata) :
                                  l \in {x \in d.leaves : x.path \in reached}}]]

\* save_photon_hdf5(data_dict, h5_fname=h5_fname) with user_descr=None.
\* Returns the exception raised (if any), the caller's dictionary after the
\* call and the file written.
save_photon_hdf5(d, fname, located, done) ==
    IF fname = "None" /\ ~HasKey(d, <<>>, "filename")
    THEN [raised |-> PythonError("KeyError"), data_dict |-> d, file |-> EmptyFile]
    ELSE
    LET \* line 156: data_dict.pop('filename')
        popped == IF fname = "None" THEN Pop(d, <<"filename">>) ELSE d
        \* lines 170-172: the caller's dictionary gets the file reference
        backup == Update(popped, <<>>, {Leaf(<<"data_file">>, [type |-> "file", v |-> ""])})
        has_provenance == HasKey(popped, <<>>, "provenance")
        missing_key ==
            has_provenance /\
            \/ ~HasKey(popped, <<"provenance">>, "filename")
            \/ /\ "filename" \notin located
               /\ ~HasKey(popped, <<"provenance">>, "filename_full")
        orig_found ==
            has_provenance /\ ~missing_key /\
            ("filename" \in located \/ "filename_full" \in located)
        \* line 186 updates the dictionary shared by the copy and the original
        with_meta(x) == IF orig_found THEN Update(x, <<"provenance">>, get_file_metadata)
                        ELSE x
        \* line 200: data_dict['identity'] = identity
        copy == LET c == Pop(with_meta(popped), <<"identity">>)
                IN  Update([groups |-> c.groups \cup {<<"identity">>}, leaves |-> c.leaves],
                           <<"identity">>, identity)
        written == _save_photon_hdf5_dict(copy, done)
    IN  IF missing_key
        THEN [raised |-> PythonError("KeyError"), data_dict |-> backup, file |-> EmptyFile]
        ELSE [raised |-> written.raised, data_dict |-> with_meta(backup),
              file |-> written.file]

dict_from_group_flat(file) ==
    [groups |-> {g.path : g \in file.groups},
     leaves |-> {Leaf(n.path, n.obj) : n \in {x \in file.leaves : Len(x.path) = 1}}]

\* dict_from_group(group) on the root of the file
dict_from_group(file) ==
    [groups |-> {g.path : g \in file.groups},
     leaves |-> {Leaf(n.path, n.obj) : n \in file.leaves}]

(***************************************************************************)
(* The dictionaries handed to save_photon_hdf5                             *)
(***************************************************************************)
Dict(groups, leaves) == [groups |-> groups, leaves |-> leaves]

FilenameItems == {EmptyDict, Dict({}, {Leaf(<<"filename">>, str("a.dat"))})}

PhotonDataItems ==
    {EmptyDict,
     Dict({<<"photon_data">>}, {Leaf(<<"photon_data", "timestamps">>, array(1))}),
     Dict({<<"photon_data">>, <<"photon_data", "timestamps_specs">>},
          {Leaf(<<"photon_data", "timestamps">>, array(1)),
           Leaf(<<"photon_data", "timestamps_specs", "timestamps_unit">>, array(2))})}

ProvenanceItems ==
    {EmptyDict, Dict({<<"provenance">>}, {})}
    \cup {Dict({<<"provenance">>}, L) :
             L \in (SUBSET {Leaf(<<"provenance", "filename">>, str("a.dat")),
                            Leaf(<<"provenance", "filename_full">>, str("/d/a.dat")),
                            Leaf(<<"provenance", "software">>, str("x"))}) \ {{}}}

IdentityItems ==
    {EmptyDict,
     Dict({<<"identity">>}, {Leaf(<<"identity", "software">>, str("other")),
                             Leaf(<<"identity", "foo">>, array(3))})}

UserItems ==
    {EmptyDict, Dict({<<"user">>}, {}),
     Dict({<<"user">>}, {Leaf(<<"user", "foo">>, str("note"))})}

CommentItems == {EmptyDict, Dict({}, {Leaf(<<"comment">>, str("text"))})}

\* a key that is not a valid node name
RefusedItems == {EmptyDict, Dict({}, {Leaf(<<"a/b">>, array(4))})}

SaveInit ==
    /\ \E f \in FilenameItems, ph \in PhotonDataItems, pr \in ProvenanceItems,
          id \in IdentityItems, u \in UserItems, c \in CommentItems,
          r \in RefusedItems :
          /\ r # EmptyDict => ph = EmptyDict /\ pr = EmptyDict /\ id = EmptyDict
          /\ original = Union2(f, Union2(ph, Union2(pr, Union2(id, Union2(u, Union2(c, r))))))
    /\ data_dict = original
    /\ h5_fname \in {"None", "out.hdf5"}
    /\ isfile \in SUBSET {"filename", "filename_full"}
    /\ h5file = EmptyFile
    /\ out = EmptyDict
    /\ spc = "call"

\* the items of the root dictionary that may have been written when a name
\* is refused: dictionaries are walked in no particular order
WrittenFirst(d) ==
    IF \A q \in d.groups \cup {l.path : l \in d.leaves} : AnalyzeItem(q).exc = "none"
    THEN {{}}
    ELSE SUBSET {"filename", "comment", "user", "identity"}

\* save_photon_hdf5(data_dict, h5_fname=h5_fname)
SavePhotonHdf5 ==
    /\ spc = "call"
    /\ \E done \in WrittenFirst(data_dict) :
          LET r == save_photon_hdf5(data_dict, h5_fname, isfile, done)
          IN  /\ data_dict' = r.data_dict
              /\ h5file' = r.file
              /\ spc' = IF r.raised.status = "raised" THEN "failed" ELSE "saved"
    /\ UNCHANGED <<original, h5_fname, isfile, out, pvars, vvars>>

\* dict_from_group(h5file.root) on the file that was saved
DictFromGroup ==
    /\ spc = "saved"
    /\ out' = dict_from_group(h5file)
    /\ spc' = "read"
    /\ UNCHANGED <<original, data_dict, h5_fname, isfile, h5file, pvars, vvars>>

(***************************************************************************)
(* Specifications                                                          *)
(***************************************************************************)
PathIdle ==
    /\ name = <<>> /\ prefix_list = <<>>
    /\ analysis = Raised("unset") /\ again = Raised("unset") /\ ppc = "idle"

ValidatorIdle ==
    /\ data = [groups |-> {}, leaves |-> {}] /\ mtype = "smFRET" /\ strict = TRUE
    /\ pc = "idle" /\ result = Running /\ warnings = <<>> /\ checked = <<>>
    /\ ph_data_m = <<>>

SaveIdle ==
    /\ original = EmptyDict /\ data_dict = EmptyDict /\ h5_fname = "None"
    /\ isfile = {} /\ h5file = EmptyFile /\ out = EmptyDict /\ spc = "idle"

\* calls of _analyze_path
PathNext == AnalyzePath \/ AnalyzeMetaPath

InitPath == PathInit /\ ValidatorIdle /\ SaveIdle

SpecPath == InitPath /\ [][PathNext]_vars

\* a save followed by a read of the file
SaveNext == SavePhotonHdf5 \/ DictFromGroup

InitSave == SaveInit /\ PathIdle /\ ValidatorIdle

SpecSave == InitSave /\ [][SaveNext]_vars

\* calls of assert_valid_photon_hdf5
Next ==
    \/ CheckValidNames
    \/ CheckHasFields
    \/ DiscoverPhotonData
    \/ CheckPhotonData
    \/ CheckSetup

Init == ValidatorInit /\ PathIdle /\ SaveIdle

Spec == Init /\ [][Next]_vars

(***************************************************************************)
(* Vocabulary of the properties                                            *)
(***************************************************************************)
Nodes(tree) == tree.groups \cup tree.leaves

Finished == pc = "done"
Rejected == result.status = "raised"
RejectedInvalid == Rejected /\ result.exc = "Invalid_PhotonHDF5"

\* the reference hierarchy with one measurement group, `photon_data`
SingleGroup == Reference({"photon_data"})

\* "photon_data" followed by digits only
IsPhotonDataN(s) ==
    /\ startswith(s, Chars("photon_data"))
    /\ \A j \in (Len(Chars("photon_data")) + 1)..Len(s) : s[j] \in DigitChars

\* the hierarchy has no photon_data and no photon_data<N> child
NoMeasurementGroup(tree) ==
    \A q \in Nodes(tree) : Len(q) = 1 => ~IsPhotonDataN(Chars(q[1]))

ph(rel) == <<"photon_data">> \o rel

(***************************************************************************)
(* C1  Lenient vs strict on the root fields                                *)
(***************************************************************************)
\* C1: a hierarchy that is valid except that `comment` or `acquisition_time`
\* is missing under the root is rejected with Invalid_PhotonHDF5 when strict
\* is true, and accepted with a warning (no exception) when strict is false.
C1_RootFieldLenient ==
    (/\ Finished
     /\ mtype \in spectral_meas_types
     /\ \E f \in {"comment", "acquisition_time"} : data = Without(SingleGroup, {<<f>>}))
    => IF strict THEN RejectedInvalid
       ELSE result = Accepted /\ warnings # <<>>

(***************************************************************************)
(* C2  Conditional mandatoriness of nantotimes_specs/tcspc_unit            *)
(***************************************************************************)
\* some measurement group of the hierarchy has a measurement_type and a
\* nantotimes_specs group without tcspc_unit
LacksTcspcUnit(tree) ==
    \E q \in tree.groups :
        /\ Len(q) = 1 /\ IsPhotonDataN(Chars(q[1]))
        /\ q \o <<"measurement_specs", "measurement_type">> \in tree.leaves
        /\ q \o <<"nantotimes_specs">> \in tree.groups
        /\ q \o <<"nantotimes_specs", "tcspc_unit">> \notin tree.leaves

OnlyTcspcUnitMissing ==
    data = Without(SingleGroup, {ph(<<"nantotimes_specs", "tcspc_unit">>)})

C3_NoMeasurementGroup ==
    (Finished /\ NoMeasurementGroup(data)) => RejectedInvalid

\* a lenient validation reached the search for the measurement groups,
\* found none and raised
C3_Witness ==
    /\ Finished /\ ~strict /\ NoMeasurementGroup(data)
    /\ HasChild(data, <<>>, "comment") /\ HasChild(data, <<>>, "acquisition_time")
    /\ result = Invalid_PhotonHDF5(Message("missing photon_data group", "", <<>>, ""))

(***************************************************************************)
(* C4  Normalization                                                       *)
(***************************************************************************)
\* the on-disk path of the call
FullPath == <<"/">> \o join(Append(prefix_list, name))

\* C4: for a call of _analyze_path that passes its assertions, (a) a path
\* whose first component is photon_data + n + r, with n the (possibly empty)
\* digit run after photon_data, has the meta path /photon_data + r (+ the
\* rest of the path): only the digit run is removed; (b) a path whose first
\* component does not begin with photon_data is returned unchanged; (c) the
\* meta path is a fixed point: analysed again it is returned unchanged.
C4_Normalization ==
    (ppc \in {"analyzed", "renormalized"} /\ analysis.exc = "none") =>
        LET first == Append(prefix_list, name)[1]
            n == Len(Chars("photon_data"))
        IN  /\ startswith(first, Chars("photon_data")) =>
                \E k \in 0..(Len(first) - n) :
                    /\ \A j \in 1..k : first[n + j] \in DigitChars
                    /\ n + k + 1 <= Len(first) => first[n + k + 1] \notin DigitChars
                    /\ analysis.meta_path =
                           SubSeq(FullPath, 1, n + 1)
                           \o SubSeq(FullPath, n + k + 2, Len(FullPath))
            /\ ~startswith(first, Chars("photon_data")) => analysis.meta_path = FullPath
            /\ ppc = "renormalized" =>
                   again.exc = "none" /\ again.meta_path = analysis.meta_path

\* /photon_data42/timestamps was analysed to /photon_data/timestamps and
\* that path was analysed again
C4_Witness ==
    /\ ppc = "renormalized"
    /\ prefix_list = <<Chars("photon_data") \o <<"4", "2">>>>
    /\ name = Chars("timestamps")
    /\ analysis.meta_path = _v_pathname(<<"photon_data", "timestamps">>)
    /\ again.meta_path = analysis.meta_path

(***************************************************************************)
(* C5  Unknown fields and the user group                                   *)
(***************************************************************************)
UnknownField(path) == Message("Unknown field", "", path, "")

\* C5: in the sweep over the names, a path gives an "unknown field" issue
\* (a warning when strict is false, the exception when strict is true) if
\* and only if its meta path is not an official field and no component of
\* the path is `user`, that is, the is_user flag of _analyze_path is false.
C5_UnknownFieldIffNotUser ==
    (pc \notin {"idle", "names"}) =>
        LET unknown == {q \in Nodes(data) :
                           /\ AnalyzeItem(q).meta_path \notin official_fields_descr
                           /\ ~AnalyzeItem(q).is_user}
        IN  IF strict
            THEN (unknown # {}) <=>
                     (RejectedInvalid /\ result.msg.text = "Unknown field")
            ELSE \A q \in Nodes(data) :
                     (q \in unknown) <=>
                         (UnknownField(AnalyzeItem(q).meta_path) \in Range(warnings))

(***************************************************************************)
(* C6  Round trip                                                          *)
(***************************************************************************)
\* keys the save operation injects: the identity group, and the file
\* metadata put into the provenance group
Injected(path) ==
    \/ Len(path) >= 1 /\ path[1] = "identity"
    \/ path \in {<<"provenance", i.path[1]>> : i \in get_file_metadata}

LeafPaths(d) == {l.path : l \in d.leaves}

\* C6: after a save and a read, the dictionary read has the groups, the
\* keys and the leaf values of the dictionary saved; the only differences
\* are the identity / provenance keys injected by the save.
C6_RoundTrip ==
    spc = "read" =>
        /\ \A g \in original.groups : ~Injected(g) => g \in out.groups
        /\ \A l \in original.leaves : ~Injected(l.path) => l \in out.leaves
        /\ \A g \in out.groups : g \in original.groups \/ Injected(g)
        /\ \A l \in out.leaves : l.path \in LeafPaths(original) \/ Injected(l.path)

\* the value read back for a value saved: a text string comes back as its
\* encoded byte string
Stored(value) == IF value.type = "str" THEN bytes(value.v) ELSE value

\* the root key the save consumes to name the file
Consumed(path) == h5_fname = "None" /\ path = <<"filename">>

\* C6 (amended): after a save that completes and a read, the dictionary
\* read has the groups, the keys and the leaf values of the dictionary
\* saved, a text string being read as its encoded byte string, except that
\* (a) when no h5_fname is given the root key `filename` is consumed by the
\* save and is not in the file, and (b) the root key `identity` holds the
\* identity fields built by the save, and the provenance group holds the
\* metadata of the original file when that file is found.
C6_RoundTripAmended ==
    spc = "read" =>
        /\ \A g \in original.groups : ~Injected(g) => g \in out.groups
        /\ \A l \in original.leaves :
               (~Injected(l.path) /\ ~Consumed(l.path))
                   => Leaf(l.path, Stored(l.value)) \in out.leaves
        /\ \A g \in out.groups : g \in original.groups \/ Injected(g)
        /\ \A l \in out.leaves : l.path \in LeafPaths(original) \/ Injected(l.path)
        /\ \A q \in out.groups \cup LeafPaths(out) : ~Consumed(q)
        /\ <<"identity">> \in out.groups
        /\ {l \in out.leaves : l.path[1] = "identity"}
               = {Leaf(<<"identity">> \o i.path, Stored(i.value)) : i \in identity}

\* a dictionary with `filename`, a comment and photon_data was saved without
\* h5_fname and read back
C6_Witness ==
    /\ spc = "read" /\ h5_fname = "None"
    /\ Leaf(<<"filename">>, str("a.dat")) \in original.leaves
    /\ <<"filename">> \notin LeafPaths(out)
    /\ Leaf(<<"comment">>, bytes("text")) \in out.leaves
    /\ Leaf(<<"photon_data", "timestamps_specs", "timestamps_unit">>, array(2)) \in out.leaves
    /\ <<"provenance">> \in out.groups

(***************************************************************************)
(* C7  The timestamps fields of a measurement group                        *)
(***************************************************************************)
TimestampsFields ==
    <<ph(<<"timestamps">>), ph(<<"timestamps_specs">>),
      ph(<<"timestamps_specs", "timestamps_unit">>)>>

\* C7: when timestamps, timestamps_specs or timestamps_unit is missing in
\* the measurement group, validation is rejected when strict is true and,
\* when strict is false, only warns and goes on: the hierarchy is accepted.
C7_TimestampsSeverityGated ==
    (/\ Finished
     /\ mtype \in spectral_meas_types
     /\ \E i \in 1..Len(TimestampsFields) : data = Without(SingleGroup, {TimestampsFields[i]}))
    => IF strict THEN RejectedInvalid
       ELSE result = Accepted /\ warnings # <<>>

\* the first of the three fields that the group photon_data lacks
FirstMissingTimestamps ==
    IF ph(<<"timestamps">>) \notin data.leaves
    THEN Message("Missing", "timestamps", ph(<<>>), "")
    ELSE IF ph(<<"timestamps_specs">>) \notin data.groups
    THEN Message("Missing", "timestamps_specs", ph(<<>>), "")
    ELSE Message("Missing", "timestamps_unit", ph(<<"timestamps_specs">>), "")

\* C7 (amended): when timestamps, timestamps_specs or timestamps_unit is
\* missing in the measurement group photon_data, validation is rejected
\* with Invalid_PhotonHDF5 for strict true and for strict false; with strict
\* false and the root fields present the exception names the first missing
\* field.
C7_TimestampsAlwaysRequired ==
    (/\ Finished
     /\ ph(<<>>) \in data.groups
     /\ \E i \in 1..Len(TimestampsFields) : TimestampsFields[i] \notin Nodes(data))
    => /\ RejectedInvalid
       /\ (/\ ~strict
           /\ HasChild(data, <<>>, "acquisition_time")
           /\ HasChild(data, <<>>, "comment"))
              => result = Invalid_PhotonHDF5(FirstMissingTimestamps)

\* a lenient validation of a hierarchy that lacks only timestamps_unit has
\* ended with the exception
C7_Witness ==
    /\ Finished /\ ~strict
    /\ data = Without(SingleGroup, {ph(<<"timestamps_specs", "timestamps_unit">>)})
    /\ RejectedInvalid /\ result.msg.name = "timestamps_unit"

(***************************************************************************)
(* C8  A numbered family of measurement groups                             *)
(***************************************************************************)
\* C8: a hierarchy with the groups photon_data0 and photon_data1, each with
\* every field, and a recognized measurement type is accepted for both
\* values of strict.
C8_FamilyAccepted ==
    (/\ Finished
     /\ mtype \in spectral_meas_types
     /\ data = Reference({"photon_data0", "photon_data1"}))
    => result = Accepted

(***************************************************************************)
(* C9  Each path is checked once                                           *)
(***************************************************************************)
\* C9: in one sweep over the names (here with strict false, so that the
\* sweep runs to its end), _check_path is called exactly once for the root
\* and for each group and leaf, and no unknown-field warning is printed
\* twice.
C9_CheckedOnce ==
    (pc \notin {"idle", "names"} /\ ~strict) =>
        /\ \A q \in Nodes(data) \cup {<<>>} :
               Cardinality({i \in 1..Len(checked) : checked[i] = q}) = 1
        /\ \A i, j \in 1..Len(warnings) :
               (warnings[i].text = "Unknown field" /\ warnings[i] = warnings[j]) => i = j

(***************************************************************************)
(* C10  The detector-channel descriptors                                   *)
(***************************************************************************)
DetectorsFields ==
    {ph(<<"measurement_specs", "detectors_specs">>),
     ph(<<"measurement_specs", "detectors_specs", "spectral_ch1">>),
     ph(<<"measurement_specs", "detectors_specs", "spectral_ch2">>)}

\* C10: with a recognized measurement type, when detectors_specs, or
\* spectral_ch1 or spectral_ch2 inside it, is missing, validation ends with
\* Invalid_PhotonHDF5, and with no other exception, for both values of
\* strict; the message names the missing field and the measurement type.
C10_DetectorsRequired ==
    \A f \in DetectorsFields :
        (/\ Finished
         /\ mtype \in spectral_meas_types
         /\ data = Without(SingleGroup, {f}))
        => /\ RejectedInvalid
           /\ result.msg.name = f[Len(f)]
           /\ result.msg.mtype = mtype
====
